---------------------------- MODULE Spec2Model ----------------------------
(***************************************************************************)
(* Model of the logistics network simulator (task_1):                      *)
(*   - the capacity graph built by build_graph (build_graph.py) and        *)
(*     changed by                                                          *)
(*     update_edge_capacity (utils.py),                                    *)
(*   - the augmenting-path solver edmonds_karp / bfs (edmonds_karp.py),    *)
(*   - the unified multi-terminal solve calculate_network_max_flow with    *)
(*     create_unified_network and check_optimal_flow (utils.py).           *)
(*                                                                         *)
(* Nodes are named by their position in list(G.nodes()): a graph with n    *)
(* nodes has the nodes 0..n-1, and row/column i of the capacity matrix is  *)
(* node i (logistics_network_simulator.py lines 453-457).                  *)
(***************************************************************************)
EXTENDS Integers, Sequences, FiniteSets, TLC

VARIABLES
    edges,            \* G.edges(): the set of ordered pairs <<u, v>>
    capacity,         \* G[u][v]["capacity"], a function on edges
    pc,               \* "start" before initialize_network, then the
                      \* position of edmonds_karp: "idle" | "loop" | "done",
                      \* or "IndexError" when the call raised
    capacity_matrix,  \* edmonds_karp's argument
    source,           \* edmonds_karp's argument
    sink,             \* edmonds_karp's argument
    flow_matrix,      \* edmonds_karp's local flow_matrix
    parent,           \* edmonds_karp's local parent
    max_flow,         \* edmonds_karp's local max_flow
    upd,              \* what the last update_edge_capacity call returned
    returned,         \* the results returned by the solves so far, oldest first
    net,              \* what the last calculate_network_max_flow call returned
    original_edges,   \* network_state["original_edges"]: the list of
                      \* (from, to, capacity) the graph was built from
    analysis,         \* what the last direct check_optimal_flow call returned
    input_edges,      \* the list edges imported from data (line 11 of
                      \* logistics_network_simulator.py)
    command,          \* the command the console loop handled last
    trie,             \* the Homework trie of task_2: its nodes and its keys
    answer            \* what the last call on the trie returned

graph == <<edges, capacity>>
solver ==
    <<pc, capacity_matrix, source, sink, flow_matrix, parent, max_flow>>
vars == <<edges, capacity, pc, capacity_matrix, source, sink, flow_matrix,
          parent, max_flow, upd, returned, net, original_edges, analysis,
          input_edges, command, trie, answer>>

\* The state of the console loop and of task_2, which no function of the
\* flow engine reads or writes.
console_state == <<input_edges, command>>
task_2 == <<trie, answer>>

-----------------------------------------------------------------------------
(* Bounds of the model. *)

\* Largest capacity of an edge of the enumerated graphs.
MaxCap == 2

\* Largest capacity of an edge of the graphs of a session, before any update.
InitCap == 1

\* parent = [-1] * num_nodes
NoParent == -1

-----------------------------------------------------------------------------
(* Arithmetic helpers. *)

\* float("Inf"): larger than every residual capacity of the model.
Inf == 1000000

Min(a, b) == IF a <= b THEN a ELSE b

Abs(a) == IF a < 0 THEN 0 - a ELSE a

RECURSIVE SumOver(_, _)
\* sum(F[x] for x in S)
SumOver(S, F) ==
    IF S = {} THEN 0
    ELSE LET x == CHOOSE y \in S : TRUE
         IN  F[x] + SumOver(S \ {x}, F)

-----------------------------------------------------------------------------
(* The capacity graph. *)

\* G.nodes(): build_graph adds a node only as an endpoint of an edge.
Nodes(E) == {e[1] : e \in E} \cup {e[2] : e \in E}

NumNodes(E) == Cardinality(Nodes(E))

\* G.has_edge(u, v)
HasEdge(E, u, v) == <<u, v>> \in E

\* G.successors(u) and G.predecessors(v)
Successors(E, u) == {v \in Nodes(E) : <<u, v>> \in E}
Predecessors(E, v) == {u \in Nodes(E) : <<u, v>> \in E}

\* nx.to_numpy_array(G, weight="capacity"): 0 where there is no edge.
prepare_capacity_matrix(E, cap) ==
    LET n == NumNodes(E)
    IN  [u \in 0..(n - 1) |->
            [v \in 0..(n - 1) |->
                IF <<u, v>> \in E THEN cap[<<u, v>>] ELSE 0]]

-----------------------------------------------------------------------------
(* bfs (edmonds_karp.py lines 4-40).  The result is a record: found is the *)
(* returned bool, parent the parent list as bfs leaves it (it is written   *)
(* in place and never reset), visited the set of nodes marked visited.     *)

\* len(capacity_matrix)
MatrixLen(cm) == Cardinality(DOMAIN cm)

\* Lines 28-33 with >= in place of >: a saturated edge passes the test.
HasResidualOrSaturated(cm, fm, current_node, neighbor) ==
    cm[current_node][neighbor] - fm[current_node][neighbor] >= 0

\* Lines 28-33: the edge current_node -> neighbor has residual capacity.
HasResidual(cm, fm, current_node, neighbor) ==
    cm[current_node][neighbor] - fm[current_node][neighbor] > 0

RECURSIVE BfsQueue(_, _, _, _, _, _)
RECURSIVE BfsNeighbors(_, _, _, _, _, _, _, _)

\* Lines 23-24 with queue.pop() in place of queue.popleft(): the node
\* enqueued last is expanded first.
BfsStack(cm, fm, snk, queue, visited, par) ==
    IF queue = <<>>
    THEN [found |-> FALSE, parent |-> par, visited |-> visited]
    ELSE BfsNeighbors(cm, fm, snk, queue[Len(queue)], 0,
                      SubSeq(queue, 1, Len(queue) - 1), visited, par)

\* Lines 26-38: the for loop over neighbor = nb .. len(capacity_matrix)-1.
BfsNeighbors(cm, fm, snk, current_node, nb, queue, visited, par) ==
    IF nb >= MatrixLen(cm)
    THEN BfsQueue(cm, fm, snk, queue, visited, par)
    ELSE IF nb \notin visited /\ HasResidual(cm, fm, current_node, nb)
         THEN IF nb = snk
              THEN [found |-> TRUE,
                    parent |-> [par EXCEPT ![nb] = current_node],
                    visited |-> visited \cup {nb}]
              ELSE BfsNeighbors(cm, fm, snk, current_node, nb + 1,
                                Append(queue, nb), visited \cup {nb},
                                [par EXCEPT ![nb] = current_node])
         ELSE BfsNeighbors(cm, fm, snk, current_node, nb + 1,
                           queue, visited, par)

\* Lines 23-24 and 40: the while loop over the queue.
BfsQueue(cm, fm, snk, queue, visited, par) ==
    IF queue = <<>>
    THEN [found |-> FALSE, parent |-> par, visited |-> visited]
    ELSE BfsNeighbors(cm, fm, snk, Head(queue), 0, Tail(queue), visited, par)

\* Lines 19-20 without line 21: the source is not marked visited.
BfsSourceUnvisited(cm, fm, src, snk, par) ==
    BfsQueue(cm, fm, snk, <<src>>, {}, par)

\* Lines 19-21.
bfs(cm, fm, src, snk, par) == BfsQueue(cm, fm, snk, <<src>>, {src}, par)

-----------------------------------------------------------------------------
(* edmonds_karp (edmonds_karp.py lines 43-87). *)

RECURSIVE PathFlow(_, _, _, _, _, _)
\* Lines 64-74: the bottleneck of the path read back from current_node.
\* path_flow starts at float("Inf"), modelled by Inf.
PathFlow(cm, fm, par, src, current_node, path_flow) ==
    IF current_node = src THEN path_flow
    ELSE LET previous_node == par[current_node]
             residual == cm[previous_node][current_node]
                         - fm[previous_node][current_node]
         IN  PathFlow(cm, fm, par, src, previous_node,
                      Min(path_flow, residual))

RECURSIVE PushNoReverse(_, _, _, _, _)
\* Lines 77-82 without line 81: the reverse direction is left alone.
PushNoReverse(fm, par, src, current_node, path_flow) ==
    IF current_node = src THEN fm
    ELSE LET previous_node == par[current_node]
         IN  PushNoReverse(
                 [fm EXCEPT ![previous_node][current_node] = @ + path_flow],
                 par, src, previous_node, path_flow)

RECURSIVE PushAlongPath(_, _, _, _, _)
\* Lines 78-82: the while loop, from current_node back to the source.
PushAlongPath(fm, par, src, current_node, path_flow) ==
    IF current_node = src THEN fm
    ELSE LET previous_node == par[current_node]
             fm1 == [fm EXCEPT ![previous_node][current_node] = @ + path_flow]
             fm2 == [fm1 EXCEPT ![current_node][previous_node] = @ - path_flow]
         IN  PushAlongPath(fm2, par, src, previous_node, path_flow)

\* Lines 77-82 with the reverse direction not updated.
UpdateFlowNoReverse(fm, par, src, snk, path_flow) ==
    PushNoReverse(fm, par, src, snk, path_flow)

\* Lines 77-82 with the walk started at the sink's parent: the edge into
\* the sink is not updated.
UpdateFlowSkipLast(fm, par, src, snk, path_flow) ==
    PushAlongPath(fm, par, src, par[snk], path_flow)

\* Lines 76-82: current_node = sink, then the while loop.
UpdateFlow(fm, par, src, snk, path_flow) ==
    PushAlongPath(fm, par, src, snk, path_flow)

\* Lines 55-57 with the flow matrix of the previous solve kept when there
\* is one of the same size (a matrix that outlives the call).
StaleFlowMatrix(n) ==
    IF pc = "done" /\ MatrixLen(flow_matrix) = n
    THEN flow_matrix
    ELSE [u \in 0..(n - 1) |-> [v \in 0..(n - 1) |-> 0]]

\* Lines 55-57: the all-zero flow matrix.
ZeroMatrix(n) == [u \in 0..(n - 1) |-> [v \in 0..(n - 1) |-> 0]]

\* The solver's variables while no call of edmonds_karp is in progress and
\* none has returned.
NoMatrix == [u \in {} |-> 0]
NoNode == NoParent

\* No call of update_edge_capacity has returned.
NoUpdate == [success |-> FALSE, message |-> <<"no call">>]

\* No call of calculate_network_max_flow has returned.
NoNet == [status |-> "no call"]

\* No direct call of check_optimal_flow has returned.
NoAnalysis == [status |-> "no call"]

\* Homework(): a trie with the root node only and no key.
EmptyTrie == [nodes |-> {<<>>}, keys |-> {}]

\* No method of the trie has been called.
NoAnswer == [op |-> "no call"]

\* Lines 54-59: the call edmonds_karp(capacity_matrix, s, t), with the
\* matrix prepared from the graph as main does (lines 453-457 of
\* logistics_network_simulator.py).
SolveStart(s, t) ==
    /\ pc \in {"idle", "done"}
    /\ capacity_matrix' = prepare_capacity_matrix(edges, capacity)
    /\ source' = s
    /\ sink' = t
    /\ flow_matrix' = ZeroMatrix(NumNodes(edges))
    /\ parent' = [u \in 0..(NumNodes(edges) - 1) |-> NoParent]
    /\ max_flow' = 0
    /\ pc' = "loop"
    /\ UNCHANGED <<graph, upd>>

\* Lines 62-85: one iteration of the while loop, bfs having returned True.
Augment ==
    /\ pc = "loop"
    /\ LET r == bfs(capacity_matrix, flow_matrix, source, sink, parent)
       IN  /\ r.found
           /\ LET path_flow == PathFlow(capacity_matrix, flow_matrix, r.parent,
                                        source, sink, Inf)
              IN  /\ flow_matrix' = UpdateFlow(flow_matrix, r.parent, source,
                                               sink, path_flow)
                  /\ max_flow' = max_flow + path_flow
           /\ parent' = r.parent
    /\ UNCHANGED <<graph, pc, capacity_matrix, source, sink, upd>>

\* Lines 62 and 87: bfs returns False, the loop ends and the result is
\* returned: {"max_flow": max_flow, "flow_matrix": flow_matrix}.
Return ==
    /\ pc = "loop"
    /\ LET r == bfs(capacity_matrix, flow_matrix, source, sink, parent)
       IN  /\ ~r.found
           /\ parent' = r.parent
    /\ pc' = "done"
    /\ UNCHANGED <<graph, capacity_matrix, source, sink, flow_matrix,
                   max_flow, upd>>

\* The value edmonds_karp returns at line 87, with the arguments of the call.
Result ==
    [capacity_matrix |-> capacity_matrix, source |-> source, sink |-> sink,
     max_flow |-> max_flow, flow_matrix |-> flow_matrix]

-----------------------------------------------------------------------------
(* update_edge_capacity (utils.py lines 332-365). *)

\* The kinds of message of the returned dict (lines 348, 354 and 362).
\* The first two are the error kinds UnknownEdge and InvalidCapacity.
UnknownEdge == "Edge does not exist"
InvalidCapacity == "Capacity must be positive"
Updated == "Updated edge"

\* Lines 345-365 without the check of lines 351-355.
UpdateReturnNoCheck(E, cap, u, v, new_capacity) ==
    IF ~HasEdge(E, u, v)
    THEN [success |-> FALSE, message |-> <<UnknownEdge, u, v>>]
    ELSE [success |-> TRUE,
          message |-> <<Updated, u, v, cap[<<u, v>>], new_capacity>>,
          old_capacity |-> cap[<<u, v>>], new_capacity |-> new_capacity]

\* The dict returned by update_edge_capacity(G, u, v, new_capacity).  A
\* message is modelled by its kind and the values formatted into it.
UpdateReturn(E, cap, u, v, new_capacity) ==
    IF ~HasEdge(E, u, v)
    THEN [success |-> FALSE, message |-> <<UnknownEdge, u, v>>]
    ELSE IF new_capacity <= 0
    THEN [success |-> FALSE, message |-> <<InvalidCapacity, new_capacity>>]
    ELSE [success |-> TRUE,
          message |-> <<Updated, u, v, cap[<<u, v>>], new_capacity>>,
          old_capacity |-> cap[<<u, v>>], new_capacity |-> new_capacity]

\* Line 358 updating every edge that leaves u.
UpdatedCapacityAllFrom(E, cap, u, v, new_capacity) ==
    IF UpdateReturn(E, cap, u, v, new_capacity).success
    THEN [e \in E |-> IF e[1] = u THEN new_capacity ELSE cap[e]]
    ELSE cap

\* G[source][target]["capacity"] after the call: line 358 on success,
\* untouched after an early return.
UpdatedCapacity(E, cap, u, v, new_capacity) ==
    IF UpdateReturn(E, cap, u, v, new_capacity).success
    THEN [cap EXCEPT ![<<u, v>>] = new_capacity]
    ELSE cap

\* The call update_edge_capacity(G, u, v, new_capacity).  The locals of an
\* earlier solve are gone by then.
UpdateEdgeCapacity(u, v, new_capacity) ==
    /\ upd' = UpdateReturn(edges, capacity, u, v, new_capacity)
    /\ capacity' = UpdatedCapacity(edges, capacity, u, v, new_capacity)
    /\ edges' = edges
    /\ pc' = "idle"
    /\ capacity_matrix' = NoMatrix
    /\ source' = NoNode
    /\ sink' = NoNode
    /\ flow_matrix' = NoMatrix
    /\ parent' = NoMatrix
    /\ max_flow' = 0

-----------------------------------------------------------------------------
(* The unified solve (utils.py lines 12-58 and 173-287).  The two super    *)
(* nodes are named by numbers no node of a graph has.                      *)

\* "SUPER_SOURCE" (line 194) and "SUPER_SINK" (line 202)
SUPER_SOURCE == 100
SUPER_SINK == 101

RECURSIVE SortedSeq(_)
\* The elements of S in the order in which the graph lists them.
SortedSeq(S) ==
    IF S = {} THEN <<>>
    ELSE LET m == CHOOSE x \in S : \A y \in S : x <= y
         IN  <<m>> \o SortedSeq(S \ {m})

\* The elements of the list q.
Elems(q) == {q[i] : i \in 1..Len(q)}

\* Lines 26-28 and 191-193: the sum of the capacities of u's outgoing edges.
TotalOutCapacity(E, cap, u) ==
    LET out == {e \in E : e[1] = u}
    IN  SumOver(out, [e \in out |-> cap[e]])

\* Lines 31-33 and 199-201: the sum of the capacities of v's incoming edges.
TotalInCapacity(E, cap, v) ==
    LET in == {e \in E : e[2] = v}
    IN  SumOver(in, [e \in in |-> cap[e]])

\* Lines 186-204 with the capacity of SUPER_SOURCE -> s taken from the edges
\* that enter s.
UnifiedNetworkByInflow(E, cap, sources, sinks) ==
    LET source_edges == {<<SUPER_SOURCE, x>> : x \in Elems(sources)}
        sink_edges == {<<x, SUPER_SINK>> : x \in Elems(sinks)}
        EU == E \cup source_edges \cup sink_edges
    IN  [edges |-> EU,
         capacity |->
            [e \in EU |->
                IF e \in sink_edges THEN TotalInCapacity(E, cap, e[1])
                ELSE IF e \in source_edges THEN TotalInCapacity(E, cap, e[2])
                ELSE cap[e]]]

\* create_unified_network(G, sources, sinks), lines 186-204: a copy of G
\* with an edge SUPER_SOURCE -> s for every source and d -> SUPER_SINK for
\* every sink.
create_unified_network(E, cap, sources, sinks) ==
    LET source_edges == {<<SUPER_SOURCE, x>> : x \in Elems(sources)}
        sink_edges == {<<x, SUPER_SINK>> : x \in Elems(sinks)}
        EU == E \cup source_edges \cup sink_edges
    IN  [edges |-> EU,
         capacity |->
            [e \in EU |->
                IF e \in sink_edges THEN TotalInCapacity(E, cap, e[1])
                ELSE IF e \in source_edges THEN TotalOutCapacity(E, cap, e[2])
                ELSE cap[e]]]

\* flow_dict.get(u, {}).get(v, 0)
FlowGet(fd, u, v) == IF <<u, v>> \in DOMAIN fd THEN fd[<<u, v>>] ELSE 0

\* What enters and what leaves node u in the assignment g on the edges E.
FlowInto(E, g, u) ==
    LET in == {e \in E : e[2] = u}
    IN  SumOver(in, [e \in in |-> g[e]])

FlowOutOf(E, g, u) ==
    LET out == {e \in E : e[1] = u}
    IN  SumOver(out, [e \in out |-> g[e]])

RECURSIVE FlowsWithin(_, _)
\* Every assignment of a flow 0..cap[e] to every edge e of S.
FlowsWithin(S, cap) ==
    IF S = {} THEN {[e \in {} |-> 0]}
    ELSE LET e0 == CHOOSE e \in S : TRUE
         IN  {[e \in S |-> IF e = e0 THEN x ELSE g[e]] :
                 g \in FlowsWithin(S \ {e0}, cap), x \in 0..cap[e0]}

\* The feasible flows of the unified graph GU from SUPER_SOURCE to
\* SUPER_SINK: within the capacities, and conserved at every node of G.
\* The flow of a super edge is what conservation at its terminal leaves (no
\* node is both a source and a sink), so the edges of G are enumerated and
\* the super edges computed.
FeasibleFlows(GU) ==
    LET E == {e \in GU.edges : e[1] # SUPER_SOURCE /\ e[2] # SUPER_SINK}
        extend(g) ==
            [e \in GU.edges |->
                IF e[1] = SUPER_SOURCE
                THEN FlowOutOf(E, g, e[2]) - FlowInto(E, g, e[2])
                ELSE IF e[2] = SUPER_SINK
                THEN FlowInto(E, g, e[1]) - FlowOutOf(E, g, e[1])
                ELSE g[e]]
    IN  {f \in {extend(g) : g \in FlowsWithin(E, GU.capacity)} :
            /\ \A e \in GU.edges : 0 <= f[e] /\ f[e] <= GU.capacity[e]
            /\ \A u \in Nodes(GU.edges) \ {SUPER_SOURCE, SUPER_SINK} :
                  FlowInto(GU.edges, f, u) = FlowOutOf(GU.edges, f, u)}

\* The value of a flow: what leaves SUPER_SOURCE.
FlowValue(GU, g) == FlowOutOf(GU.edges, g, SUPER_SOURCE)

\* nx.maximum_flow(G_unified, "SUPER_SOURCE", "SUPER_SINK", ...), lines
\* 224-229, by its contract: the pairs <<max_flow, flow_dict>> it may
\* return are the feasible flows of the largest value.
maximum_flow(GU) ==
    LET feasible == FeasibleFlows(GU)
        best == CHOOSE v \in {FlowValue(GU, g) : g \in feasible} :
                    \A g \in feasible : FlowValue(GU, g) <= v
    IN  {<<best, g>> : g \in {h \in feasible : FlowValue(GU, h) = best}}

\* nx.minimum_cut(G, source, sink, capacity="capacity")[0], line 36, by its
\* contract: the smallest total capacity of the edges that leave a node set
\* holding the source and not the sink.
minimum_cut(GU, src, snk) ==
    LET sides == {S \in SUBSET Nodes(GU.edges) : src \in S /\ snk \notin S}
        value(S) ==
            LET crossing == {e \in GU.edges : e[1] \in S /\ e[2] \notin S}
            IN  SumOver(crossing, [e \in crossing |-> GU.capacity[e]])
    IN  CHOOSE c \in {value(S) : S \in sides} :
            \A S \in sides : c <= value(S)

\* Lines 45-47 comparing the flow with the source capacity instead of the
\* cut value.
IsOptimalVsSource(flow, cut_value, source_capacity) ==
    Abs(flow - source_capacity) = 0

\* Lines 45-47: abs(max_flow - cut_value) < 1e-9; between integers, the
\* difference is below 1e-9 exactly when it is 0.
IsOptimal(flow, cut_value, source_capacity) == Abs(flow - cut_value) = 0

\* Lines 25-58 with the two saturation flags exchanged.
CheckOptimalFlowSwapped(GU, src, snk, flow) ==
    LET source_capacity == TotalOutCapacity(GU.edges, GU.capacity, src)
        sink_capacity == TotalInCapacity(GU.edges, GU.capacity, snk)
        cut_value == minimum_cut(GU, src, snk)
    IN  [max_flow |-> flow,
         min_cut_value |-> cut_value,
         source_capacity |-> source_capacity,
         sink_capacity |-> sink_capacity,
         is_optimal |-> IsOptimal(flow, cut_value, source_capacity),
         source_saturated |-> flow >= sink_capacity,
         sink_saturated |-> flow >= source_capacity,
         bottleneck |-> Min(Min(source_capacity, sink_capacity), cut_value)]

\* check_optimal_flow(G, source, sink, max_flow), lines 25-58: the analysis
\* dict without its explanation text.
check_optimal_flow(GU, src, snk, flow) ==
    LET source_capacity == TotalOutCapacity(GU.edges, GU.capacity, src)
        sink_capacity == TotalInCapacity(GU.edges, GU.capacity, snk)
        cut_value == minimum_cut(GU, src, snk)
    IN  [max_flow |-> flow,
         min_cut_value |-> cut_value,
         source_capacity |-> source_capacity,
         sink_capacity |-> sink_capacity,
         is_optimal |-> IsOptimal(flow, cut_value, source_capacity),
         source_saturated |-> flow >= source_capacity,
         sink_saturated |-> flow >= sink_capacity,
         bottleneck |-> Min(Min(source_capacity, sink_capacity), cut_value)]

\* An attributed flow: the fraction num / den.
\* Line 275: attributed_flow > 0.01, that is 100 * num > den.
SignificanceInverse == 100
Significant(a) == SignificanceInverse * a.num > a.den

\* Lines 263-266 summing over every predecessor of the warehouse.
TotalInFromAll(fd, E, sources, warehouse) ==
    LET from == {e \in DOMAIN fd : e[2] = warehouse}
    IN  SumOver(from, [e \in from |-> fd[e]])

\* Lines 263-266: sum(flow_dict.get(t, {}).get(warehouse, 0) for t in sources)
total_warehouse_in(fd, E, sources, warehouse) ==
    LET idx == 1..Len(sources)
    IN  SumOver(idx, [i \in idx |-> FlowGet(fd, sources[i], warehouse)])

RECURSIVE StoreLoop(_, _, _, _, _, _)
\* Lines 255-279: the loop over the stores of one warehouse.
StoreLoop(fd, E, sources, terminal, warehouse, stores) ==
    IF stores = <<>> THEN <<>>
    ELSE LET store == Head(stores)
             terminal_to_warehouse == FlowGet(fd, terminal, warehouse)
             warehouse_to_store == FlowGet(fd, warehouse, store)
             total_in == total_warehouse_in(fd, E, sources, warehouse)
             attributed_flow ==
                 [num |-> warehouse_to_store * terminal_to_warehouse,
                  den |-> total_in]
             rest == StoreLoop(fd, E, sources, terminal, warehouse,
                               Tail(stores))
         IN  IF /\ warehouse_to_store > 0
                /\ total_in > 0
                /\ Significant(attributed_flow)
             THEN <<<<terminal, store, attributed_flow>>>> \o rest
             ELSE rest

RECURSIVE WarehouseLoop(_, _, _, _, _)
\* Lines 243-279: the loop over the warehouses of one terminal.
WarehouseLoop(fd, E, sources, terminal, warehouses) ==
    IF warehouses = <<>> THEN <<>>
    ELSE LET warehouse == Head(warehouses)
             succ == Successors(E, warehouse)
             warehouse_total_out ==
                 SumOver(succ, [x \in succ |-> FlowGet(fd, warehouse, x)])
             rest == WarehouseLoop(fd, E, sources, terminal,
                                   Tail(warehouses))
         IN  IF FlowGet(fd, terminal, warehouse) > 0 /\ warehouse_total_out > 0
             THEN StoreLoop(fd, E, sources, terminal, warehouse,
                            SortedSeq(succ)) \o rest
             ELSE rest

RECURSIVE TerminalLoop(_, _, _, _)
\* Lines 237-279: the loop over the terminals; todo holds those left.
TerminalLoop(fd, E, sources, todo) ==
    IF todo = <<>> THEN <<>>
    ELSE LET terminal == Head(todo)
             rest == TerminalLoop(fd, E, sources, Tail(todo))
         IN  IF FlowGet(fd, SUPER_SOURCE, terminal) > 0
             THEN WarehouseLoop(fd, E, sources, terminal,
                                SortedSeq(Successors(E, terminal))) \o rest
             ELSE rest

\* Lines 186-229 not raising for an empty list of sinks.
RaisesUnlessNoSinks(E, sources, sinks) ==
    \/ ~(Elems(sources) \cup Elems(sinks) \subseteq Nodes(E))
    \/ sources = <<>>

\* Whether calculate_network_max_flow raises before it has a flow.  A
\* terminal that is no node of G makes G.successors or G.predecessors raise
\* NetworkXError in create_unified_network (lines 192 and 200); an empty
\* list leaves the unified graph without its super node, and nx.maximum_flow
\* (lines 224-229) raises NetworkXError for a node that is not in the graph.
Raises(E, sources, sinks) ==
    \/ ~(Elems(sources) \cup Elems(sinks) \subseteq Nodes(E))
    \/ sources = <<>>
    \/ sinks = <<>>

\* Lines 186-203 writing the super edges into G itself.
OriginalAliased(E, cap, sources, sinks) ==
    create_unified_network(E, cap, sources, sinks)

\* G after create_unified_network: line 186 takes a copy and lines 194 and
\* 202 write to the copy only.
OriginalAfterUnify(E, cap, sources, sinks) == [edges |-> E, capacity |-> cap]

\* calculate_network_max_flow(G, sources, sinks), lines 220-287.
calculate_network_max_flow(sources, sinks) ==
    /\ pc \in {"idle", "done"}
    /\ IF Raises(edges, sources, sinks)
       THEN net' = [status |-> "NetworkXError"]
       ELSE LET G_unified ==
                    create_unified_network(edges, capacity, sources, sinks)
            IN  \E mf \in maximum_flow(G_unified) :
                    net' = [status |-> "ok",
                            sources |-> sources,
                            sinks |-> sinks,
                            max_flow |-> mf[1],
                            flow_distribution |->
                                TerminalLoop(mf[2], edges, sources, sources),
                            optimality_analysis |->
                                check_optimal_flow(G_unified, SUPER_SOURCE,
                                                   SUPER_SINK, mf[1]),
                            graph |-> G_unified,
                            flow_dict |-> mf[2]]
    /\ edges' = OriginalAfterUnify(edges, capacity, sources, sinks).edges
    /\ capacity' = OriginalAfterUnify(edges, capacity, sources, sinks).capacity
    /\ UNCHANGED <<solver, upd>>

\* A direct call check_optimal_flow(G, src, snk, flow) on the graph, with
\* any flow value.  G.successors and G.predecessors (lines 27 and 32) raise
\* NetworkXError for a node that is not in G.
CheckOptimalFlow(src, snk, flow) ==
    /\ pc \in {"idle", "done"}
    /\ IF {src, snk} \subseteq Nodes(edges)
       THEN analysis' =
                [status |-> "ok",
                 report |-> check_optimal_flow(
                                [edges |-> edges, capacity |-> capacity],
                                src, snk, flow)]
       ELSE analysis' = [status |-> "NetworkXError"]
    /\ UNCHANGED <<graph, solver, upd>>

-----------------------------------------------------------------------------
(* The graphs of the initial states.  build_graph (build_graph.py lines    *)
(* 4-17) makes a graph of the edges it is given and of their endpoints.    *)

\* Every ordered pair of distinct nodes among three nodes: these graphs
\* hold edges of capacity 0 and pairs of opposite edges.
SmallPairs ==
    {<<0, 1>>, <<0, 2>>, <<1, 0>>, <<1, 2>>, <<2, 0>>, <<2, 1>>}

\* A six-node network in which the second augmenting path of
\* edmonds_karp(0, 5) goes back along the edge 1 -> 3 of the first.
LayeredPairs ==
    {<<0, 1>>, <<0, 2>>, <<1, 3>>, <<1, 4>>, <<2, 3>>, <<3, 5>>, <<4, 5>>}

\* The same network with the edge 3 -> 1, opposite to 1 -> 3.
LayeredOpposite == LayeredPairs \cup {<<3, 1>>}

\* A five-node network with a path of two edges, 0 -> 1 -> 4, beside a
\* path of three edges, 0 -> 2 -> 3 -> 4; node 2 is enqueued after node 1.
ShortcutPairs == {<<0, 1>>, <<0, 2>>, <<1, 4>>, <<2, 3>>, <<3, 4>>}

RECURSIVE BuildLoop(_, _)
\* Lines 8-15 of build_graph.py: G after the first k edges of the list.
\* G.add_edge on a pair that is already an edge replaces its capacity.
BuildLoop(edge_list, k) ==
    IF k = 0 THEN [edges |-> {}, capacity |-> [e \in {} |-> 0]]
    ELSE LET G == BuildLoop(edge_list, k - 1)
             edge == edge_list[k]
             E == G.edges \cup {<<edge[1], edge[2]>>}
         IN  [edges |-> E,
              capacity |-> [e \in E |-> IF e = <<edge[1], edge[2]>>
                                        THEN edge[3]
                                        ELSE G.capacity[e]]]

\* build_graph(edges), build_graph.py lines 4-17.
build_graph(edge_list) == BuildLoop(edge_list, Len(edge_list))

RECURSIVE EdgeListOf(_, _)
\* The list a graph of the initial states was built from: each edge once.
EdgeListOf(E, cap) ==
    IF E = {} THEN <<>>
    ELSE LET e == CHOOSE x \in E :
                      \A y \in E : x[1] < y[1] \/ (x[1] = y[1] /\ x[2] <= y[2])
         IN  <<<<e[1], e[2], cap[e]>>>> \o EdgeListOf(E \ {e}, cap)

\* The nodes of a graph are 0..n-1 (their positions in G.nodes()).
IsGraph(E) == E # {} /\ Nodes(E) = 0..(NumNodes(E) - 1)

InitGraph ==
    \/ \E E \in SUBSET SmallPairs :
          /\ IsGraph(E)
          /\ edges = E
          /\ capacity \in [E -> 0..MaxCap]
    \/ \E E \in {LayeredPairs, LayeredOpposite, ShortcutPairs} :
          /\ IsGraph(E)
          /\ edges = E
          /\ capacity \in [E -> 1..MaxCap]

InitSolver ==
    /\ pc = "idle"
    /\ capacity_matrix = NoMatrix
    /\ source = NoNode
    /\ sink = NoNode
    /\ flow_matrix = NoMatrix
    /\ parent = NoMatrix
    /\ max_flow = 0
    /\ upd = NoUpdate
    /\ analysis = NoAnalysis
    /\ original_edges = EdgeListOf(edges, capacity)
    /\ input_edges = EdgeListOf(edges, capacity)
    /\ command = ""
    /\ trie = EmptyTrie
    /\ answer = NoAnswer

Init ==
    /\ InitGraph
    /\ InitSolver
    /\ returned = <<>>
    /\ net = NoNet

\* The node pairs tried for update_edge_capacity, edges or not; the
\* capacities tried run from -1 to MaxCap.
UpdateArgs == (0..(NumNodes(edges) - 1)) \X (0..(NumNodes(edges) - 1))

\* One solve after another on a graph that is not changed in between.
Next ==
    \/ \E s, t \in 0..(NumNodes(edges) - 1) :
          SolveStart(s, t) /\ UNCHANGED <<returned, net, original_edges, analysis,
                    console_state, task_2>>
    \/ Augment /\ UNCHANGED <<returned, net, original_edges, analysis,
                    console_state, task_2>>
    \/ Return /\ UNCHANGED <<returned, net, original_edges, analysis,
                    console_state, task_2>>

Spec == Init /\ [][Next]_vars

\* The steps of a call that is in progress.  edmonds_karp is sequential
\* code: once called, it takes its next step.
AugmentStep == Augment /\ UNCHANGED <<returned, net, original_edges, analysis,
                    console_state, task_2>>
ReturnStep == Return /\ UNCHANGED <<returned, net, original_edges, analysis,
                    console_state, task_2>>

\* The graphs on three nodes with capacities 0..InitCap, and the six-node
\* network with capacities 1..MaxCap.
InitLive ==
    /\ \/ \E E \in SUBSET SmallPairs :
             /\ IsGraph(E)
             /\ edges = E
             /\ capacity \in [E -> 0..InitCap]
       \/ /\ edges = LayeredPairs
          /\ capacity \in [LayeredPairs -> 1..MaxCap]
    /\ InitSolver
    /\ returned = <<>>
    /\ net = NoNet

\* One call of edmonds_karp per run.
NextLive ==
    \/ \E s, t \in 0..(NumNodes(edges) - 1) :
          /\ pc = "idle"
          /\ SolveStart(s, t)
          /\ UNCHANGED <<returned, net, original_edges, analysis,
                    console_state, task_2>>
    \/ AugmentStep
    \/ ReturnStep

SpecLive ==
    InitLive /\ [][NextLive]_vars /\ WF_vars(AugmentStep) /\ WF_vars(ReturnStep)

-----------------------------------------------------------------------------
(* initialize_network (logistics_network_simulator.py lines 39-42) on any  *)
(* short list of edges, duplicates and negative capacities included.       *)

\* Longest list of edges given to build_graph.
MaxEdges == 2

\* The pairs and capacities of the edges of such a list.
BuildPairs == {<<0, 1>>, <<1, 0>>, <<1, 2>>}
BuildCapacities == (0 - 1)..MaxCap

RECURSIVE ListsUpTo(_, _)
\* The lists of at most k elements of S.
ListsUpTo(S, k) ==
    IF k = 0 THEN {<<>>}
    ELSE LET shorter == ListsUpTo(S, k - 1)
         IN  shorter \cup {Append(q, x) : q \in shorter, x \in S}

EdgeLists ==
    ListsUpTo({<<p[1], p[2], c>> : p \in BuildPairs, c \in BuildCapacities},
              MaxEdges)

\* initialize_network(): the graph is built from the data and the data kept.
initialize_network(data) ==
    /\ pc = "start"
    /\ edges' = build_graph(data).edges
    /\ capacity' = build_graph(data).capacity
    /\ original_edges' = data
    /\ pc' = "idle"
    /\ UNCHANGED <<capacity_matrix, source, sink, flow_matrix, parent,
                   max_flow, upd, returned, net, analysis, console_state,
                   task_2>>

InitBuild ==
    /\ pc = "start"
    /\ edges = {}
    /\ capacity = NoMatrix
    /\ original_edges = <<>>
    /\ capacity_matrix = NoMatrix
    /\ source = NoNode
    /\ sink = NoNode
    /\ flow_matrix = NoMatrix
    /\ parent = NoMatrix
    /\ max_flow = 0
    /\ upd = NoUpdate
    /\ analysis = NoAnalysis
    /\ returned = <<>>
    /\ net = NoNet
    /\ input_edges \in EdgeLists
    /\ command = ""
    /\ trie = EmptyTrie
    /\ answer = NoAnswer

\* main calls initialize_network() at startup (line 319); it reads the
\* imported list.
NextBuild == initialize_network(input_edges)

SpecBuild == InitBuild /\ [][NextBuild]_vars

-----------------------------------------------------------------------------
(* A session of the console loop: a solve, an update_edge_capacity call,   *)
(* and the same query again.  The results returned are kept in returned.   *)

\* Number of solves of a session.
MaxSolves == 2

InitSession ==
    /\ \E E \in SUBSET SmallPairs :
          /\ IsGraph(E)
          /\ edges = E
          /\ capacity \in [E -> 0..InitCap]
    /\ InitSolver
    /\ returned = <<>>
    /\ net = NoNet

NextSession ==
    \/ \E s, t \in 0..(NumNodes(edges) - 1) :
          /\ Len(returned) < MaxSolves
          /\ returned # <<>> =>
                (s = returned[1].source /\ t = returned[1].sink)
          /\ SolveStart(s, t)
          /\ UNCHANGED <<returned, net, original_edges, analysis,
                    console_state, task_2>>
    \/ Augment /\ UNCHANGED <<returned, net, original_edges, analysis,
                    console_state, task_2>>
    \/ Return /\ returned' = Append(returned, Result)
             /\ UNCHANGED <<net, original_edges, analysis,
                    console_state, task_2>>
    \/ \E p \in UpdateArgs, c \in (0 - 1)..MaxCap :
          /\ pc = "done"
          /\ Len(returned) < MaxSolves
          /\ UpdateEdgeCapacity(p[1], p[2], c)
          /\ UNCHANGED <<returned, net, original_edges, analysis,
                    console_state, task_2>>

SpecSession == InitSession /\ [][NextSession]_vars

-----------------------------------------------------------------------------
(* Calls with any arguments on a three-node graph: edmonds_karp with       *)
(* indices inside and outside 0..n-1, and the unified solve with terminal  *)
(* lists that may be empty or name a node the graph does not have.         *)

\* The call edmonds_karp(capacity_matrix, s, t) for a source index s >= 0.
\* Line 21, visited[source] = True, raises IndexError for s >= n; the sink
\* index is only compared with the neighbours (line 36), never used as an
\* index before a path is found.
edmonds_karp_call(s, t) ==
    IF s < NumNodes(edges)
    THEN SolveStart(s, t)
    ELSE /\ pc \in {"idle", "done"}
         /\ pc' = "IndexError"
         /\ capacity_matrix' = prepare_capacity_matrix(edges, capacity)
         /\ source' = s
         /\ sink' = t
         /\ flow_matrix' = NoMatrix
         /\ parent' = NoMatrix
         /\ max_flow' = 0
         /\ UNCHANGED <<graph, upd>>

\* The terminal lists of the unified solves on these graphs.
CallSourceLists == {<<>>, <<0>>}
CallSinkLists == {<<2>>, <<3>>}

\* Source indices 0..n and sink indices -1..n; one edmonds_karp call and
\* one unified solve per run.
NextCalls ==
    \/ \E s \in 0..NumNodes(edges), t \in (0 - 1)..NumNodes(edges) :
          /\ pc = "idle"
          /\ net = NoNet
          /\ edmonds_karp_call(s, t)
          /\ UNCHANGED <<returned, net, original_edges, analysis,
                    console_state, task_2>>
    \/ Augment /\ UNCHANGED <<returned, net, original_edges, analysis,
                    console_state, task_2>>
    \/ Return /\ UNCHANGED <<returned, net, original_edges, analysis,
                    console_state, task_2>>
    \/ \E sources \in CallSourceLists, sinks \in CallSinkLists :
          /\ net = NoNet
          /\ calculate_network_max_flow(sources, sinks)
          /\ UNCHANGED <<returned, original_edges, analysis,
                    console_state, task_2>>

SpecCalls == InitSession /\ [][NextCalls]_vars

-----------------------------------------------------------------------------
(* The unified solve on small distribution networks: the terminals 0 and   *)
(* 1, the hubs 2 and 4, the stores 3 and 5.                                *)

\* Largest capacity of an edge of the enumerated networks.
MaxNetCap == 2

\* The edges a network may have: terminal -> hub, hub -> store, the hub
\* 4 -> the hub 2 (a second tier), and terminal 1 -> terminal 0.
NetPairs ==
    {<<0, 2>>, <<1, 2>>, <<1, 4>>, <<4, 2>>, <<2, 3>>, <<2, 5>>, <<1, 0>>}

\* The scenario A -> H (10), B -> H (5), H -> D1 (6), H -> D2 (9) with
\* A = 0, B = 1, H = 2, D1 = 3, D2 = 5.
ScenarioCapacity ==
    [e \in {<<0, 2>>, <<1, 2>>, <<2, 3>>, <<2, 5>>} |->
        IF e = <<0, 2>> THEN 10
        ELSE IF e = <<1, 2>> THEN 5
        ELSE IF e = <<2, 3>> THEN 6
        ELSE 9]

\* A hub fed 1 and 99 by the two terminals and feeding 1 and 99 to the two
\* stores: the share of terminal 0 in the flow to store 3 is 1/100.
SkewedCapacity ==
    [e \in {<<0, 2>>, <<1, 2>>, <<2, 3>>, <<2, 5>>} |->
        IF e \in {<<0, 2>>, <<2, 3>>} THEN 1 ELSE 99]

\* The lists of terminals and of stores a query may name.
SourceLists == {<<>>, <<0>>, <<0, 1>>}
SinkLists == {<<>>, <<3>>, <<3, 5>>}

InitNet ==
    /\ \/ \E E \in SUBSET NetPairs :
             /\ E # {}
             /\ edges = E
             /\ capacity \in [E -> 1..MaxNetCap]
       \/ edges = DOMAIN ScenarioCapacity /\ capacity = ScenarioCapacity
       \/ edges = DOMAIN SkewedCapacity /\ capacity = SkewedCapacity
    /\ InitSolver
    /\ returned = <<>>
    /\ net = NoNet

\* One call per run: the unified solve, or check_optimal_flow for a
\* terminal, a store and a flow value of the caller's choosing.
NextNet ==
    \/ \E sources \in SourceLists, sinks \in SinkLists :
          /\ net = NoNet
          /\ analysis = NoAnalysis
          /\ calculate_network_max_flow(sources, sinks)
          /\ UNCHANGED <<returned, original_edges, analysis,
                    console_state, task_2>>
    \/ \E src \in {0, 1}, snk \in {3, 5}, flow \in 0..MaxNetCap :
          /\ net = NoNet
          /\ analysis = NoAnalysis
          /\ CheckOptimalFlow(src, snk, flow)
          /\ UNCHANGED <<returned, original_edges, net, console_state, task_2>>

SpecNet == InitNet /\ [][NextNet]_vars

-----------------------------------------------------------------------------
(* Definitions used to state the claims about the solver. *)

RECURSIVE ResidualReach(_, _, _)
\* The nodes reachable from the set S in the residual graph of fm.
ResidualReach(cm, fm, S) ==
    LET step == S \cup {v \in DOMAIN cm :
                           \E u \in S : cm[u][v] - fm[u][v] > 0}
    IN  IF step = S THEN S ELSE ResidualReach(cm, fm, step)

\* The sum of the capacities of the edges that leave the node set S.
CutCapacity(cm, S) ==
    LET crossing == {p \in S \X (DOMAIN cm \ S) : TRUE}
    IN  SumOver(crossing, [p \in crossing |-> cm[p[1]][p[2]]])

\* The capacity of a minimum cut between src and snk.
MinCutValue(cm, src, snk) ==
    LET cuts == {S \in SUBSET (DOMAIN cm) : src \in S /\ snk \notin S}
    IN  CHOOSE c \in {CutCapacity(cm, S) : S \in cuts} :
            \A S \in cuts : c <= CutCapacity(cm, S)

\* The flow carried into and out of node u: the positive entries of the
\* flow matrix in column u and in row u.
InFlow(fm, u) ==
    LET from == {w \in DOMAIN fm : fm[w][u] > 0}
    IN  SumOver(from, [w \in from |-> fm[w][u]])

OutFlow(fm, u) ==
    LET to == {w \in DOMAIN fm : fm[u][w] > 0}
    IN  SumOver(to, [w \in to |-> fm[u][w]])

\* The simple directed paths from src to snk in the graph with the node set
\* N and the edge set E, as sequences of nodes.
SimplePaths(N, E, src, snk) ==
    {q \in UNION {[1..k -> N] : k \in 1..Cardinality(N)} :
        /\ q[1] = src
        /\ q[Len(q)] = snk
        /\ \A i, j \in 1..Len(q) : i # j => q[i] # q[j]
        /\ \A i \in 1..(Len(q) - 1) : <<q[i], q[i + 1]>> \in E}

\* The edge (u, v) lies on a directed path from src to snk.
OnSomePath(N, E, src, snk, u, v) ==
    \E q \in SimplePaths(N, E, src, snk) :
        \E i \in 1..(Len(q) - 1) : q[i] = u /\ q[i + 1] = v

-----------------------------------------------------------------------------
(* The claims. *)

\* C1: when edmonds_karp returns for distinct source and sink, max_flow is
\* the capacity of a minimum source-sink cut: the nodes reachable from the
\* source in the final residual graph exclude the sink, and the capacities
\* of the edges leaving that set sum to max_flow.
C1_MaxFlowIsMinCut ==
    (pc = "done" /\ source # sink) =>
        LET S == ResidualReach(capacity_matrix, flow_matrix, {source})
        IN  /\ sink \notin S
            /\ CutCapacity(capacity_matrix, S) = max_flow
            /\ MinCutValue(capacity_matrix, source, sink) = max_flow

\* C1 witness: a solve of the six-node network from 0 to 5 has returned 2
\* with the flow first pushed along 1 -> 3 taken back.
C1_Witness ==
    /\ pc = "done"
    /\ MatrixLen(capacity_matrix) = 6
    /\ source = 0 /\ sink = 5
    /\ max_flow = 2
    /\ capacity_matrix[1][3] = 1
    /\ capacity_matrix[3][1] = 0
    /\ flow_matrix[1][3] = 0
    /\ flow_matrix[1][4] = 1
    /\ flow_matrix[2][3] = 1

\* C2 (as claimed): during a solve and in the returned flow matrix every
\* edge (u, v) of the graph carries a flow with 0 <= flow <= capacity.
C2_CapacityRespect ==
    pc \in {"loop", "done"} =>
        \A e \in edges :
            /\ 0 <= flow_matrix[e[1]][e[2]]
            /\ flow_matrix[e[1]][e[2]] <= capacity_matrix[e[1]][e[2]]

\* C3: during a solve and in the returned flow matrix, every node other
\* than the source and the sink has total inflow equal to total outflow.
C3_FlowConservation ==
    pc \in {"loop", "done"} =>
        \A u \in DOMAIN flow_matrix :
            u \notin {source, sink} =>
                InFlow(flow_matrix, u) = OutFlow(flow_matrix, u)

\* C3 witness: after an augmentation an intermediate node carries flow.
C3_Witness ==
    /\ pc = "loop"
    /\ max_flow > 0
    /\ \E u \in DOMAIN flow_matrix :
          u \notin {source, sink} /\ InFlow(flow_matrix, u) > 0

C8_UpdateIsolation ==
    (/\ Len(returned) = 2
     /\ upd.success
     /\ ~OnSomePath(Nodes(edges), edges, returned[1].source,
                    returned[1].sink, upd.message[2], upd.message[3])) =>
        /\ returned[1].max_flow = returned[2].max_flow
        /\ returned[1].flow_matrix = returned[2].flow_matrix

\* C8 witness: between two solves that carried flow, the capacity of an
\* edge on no path from the source to the sink was changed.
C8_Witness ==
    /\ Len(returned) = 2
    /\ upd.success
    /\ upd.old_capacity # upd.new_capacity
    /\ ~OnSomePath(Nodes(edges), edges, returned[1].source,
                   returned[1].sink, upd.message[2], upd.message[3])
    /\ returned[1].max_flow > 0

\* C9: update_edge_capacity fails with UnknownEdge when (u, v) is not an
\* edge, whatever the new capacity, and with InvalidCapacity when the edge
\* exists and the new capacity is <= 0; a failed call changes no capacity,
\* edge or node.
C9_UpdateFailures ==
    [][pc = "done" => \A p \in UpdateArgs, c \in (0 - 1)..MaxCap :
          UpdateEdgeCapacity(p[1], p[2], c) =>
              /\ p \notin edges =>
                    /\ ~upd'.success
                    /\ upd'.message[1] = UnknownEdge
                    /\ edges' = edges /\ capacity' = capacity
              /\ (p \in edges /\ c <= 0) =>
                    /\ ~upd'.success
                    /\ upd'.message[1] = InvalidCapacity
                    /\ edges' = edges /\ capacity' = capacity]_vars

\* C9 witness: a call on an existing edge was refused for its capacity.
C9_Witness == ~upd.success /\ upd.message = <<InvalidCapacity, 0>>

\* C10: a successful update_edge_capacity returns the capacity the edge had
\* before the call, makes the new capacity the edge's capacity for later
\* queries, and changes no other capacity, no edge and no node.
C10_UpdateSuccess ==
    [][pc = "done" => \A p \in UpdateArgs, c \in (0 - 1)..MaxCap :
          (UpdateEdgeCapacity(p[1], p[2], c) /\ p \in edges /\ c > 0) =>
              /\ upd'.success
              /\ upd'.old_capacity = capacity[p]
              /\ upd'.new_capacity = c
              /\ edges' = edges
              /\ DOMAIN capacity' = edges
              /\ capacity'[p] = c
              /\ \A e \in edges \ {p} : capacity'[e] = capacity[e]
              /\ prepare_capacity_matrix(edges', capacity')[p[1]][p[2]] = c
      ]_vars

\* C10 witness: an update has replaced a capacity by a different one.
C10_Witness == upd.success /\ upd.old_capacity # upd.new_capacity

-----------------------------------------------------------------------------
(* Definitions used to state the claims about the unified solve. *)

RECURSIVE AttributedTotal(_, _)
\* The sum, as a fraction, of the attributed flows of the records of origin s.
AttributedTotal(records, s) ==
    IF records = <<>> THEN [num |-> 0, den |-> 1]
    ELSE LET r == Head(records)
             rest == AttributedTotal(Tail(records), s)
         IN  IF r[1] = s
             THEN [num |-> r[3].num * rest.den + rest.num * r[3].den,
                   den |-> r[3].den * rest.den]
             ELSE rest

\* The triples (s, h, d) of a solve: s a source, f(s, h) > 0, f(h, d) > 0.
Shares ==
    {t \in Elems(net.sources) \X Nodes(edges) \X Nodes(edges) :
        /\ FlowGet(net.flow_dict, t[1], t[2]) > 0
        /\ FlowGet(net.flow_dict, t[2], t[3]) > 0}

\* f(h, d) * f(s, h) / (sum over the sources t of f(t, h)) for a triple.
ShareOf(t) ==
    LET idx == 1..Len(net.sources)
    IN  [num |-> FlowGet(net.flow_dict, t[2], t[3])
                   * FlowGet(net.flow_dict, t[1], t[2]),
         den |-> SumOver(idx, [i \in idx |->
                     FlowGet(net.flow_dict, net.sources[i], t[2])])]

HasRecord(t) ==
    \E i \in 1..Len(net.flow_distribution) :
        net.flow_distribution[i] = <<t[1], t[3], ShareOf(t)>>

\* C4: every unified solve that returns reports a max_flow equal to the
\* min_cut_value between SUPER_SOURCE and SUPER_SINK of the same unified
\* graph, and is_optimal is true.
C4_UnifiedMaxFlowIsMinCut ==
    net.status = "ok" =>
        /\ net.max_flow = net.optimality_analysis.min_cut_value
        /\ net.optimality_analysis.min_cut_value
             = minimum_cut(net.graph, SUPER_SOURCE, SUPER_SINK)
        /\ net.optimality_analysis.is_optimal

\* A solve with two terminals whose flow is positive and below what the
\* terminals could send.
C4_Witness ==
    /\ net.status = "ok"
    /\ Len(net.sources) = 2
    /\ net.max_flow > 0
    /\ net.max_flow < net.optimality_analysis.source_capacity
    /\ net.optimality_analysis.is_optimal

\* C5: for each origin s, the attributed flows of the records of origin s
\* sum to at most the flow leaving s in the flow assignment.
C5_AttributionConservation ==
    net.status = "ok" =>
        \A s \in Elems(net.sources) :
            LET total == AttributedTotal(net.flow_distribution, s)
            IN  total.num <= FlowOutOf(edges, net.flow_dict, s) * total.den

\* C6 as stated: every triple (s, h, d) with f(s, h) > 0 and f(h, d) > 0 has
\* a record (s, d) of f(h, d) * f(s, h) / (sum over sources t of f(t, h)),
\* and the scenario gives 10 to A and 5 to B.
C6_ProportionalShare ==
    net.status = "ok" =>
        /\ \A t \in Shares : HasRecord(t)
        /\ (capacity = ScenarioCapacity /\ net.sources = <<0, 1>>
                /\ net.sinks = <<3, 5>>) =>
              /\ AttributedTotal(net.flow_distribution, 0).num
                   = 10 * AttributedTotal(net.flow_distribution, 0).den
              /\ AttributedTotal(net.flow_distribution, 1).num
                   = 5 * AttributedTotal(net.flow_distribution, 1).den

\* C6, amended: a triple (s, h, d) has its record exactly when SUPER_SOURCE
\* sends flow to s and the share exceeds 0.01, every record is the share of
\* such a triple, and the scenario gives 10 to A and 5 to B.
C6_ProportionalShareAboveThreshold ==
    net.status = "ok" =>
        /\ \A t \in Shares :
              HasRecord(t) <=>
                  /\ FlowGet(net.flow_dict, SUPER_SOURCE, t[1]) > 0
                  /\ Significant(ShareOf(t))
        /\ \A i \in 1..Len(net.flow_distribution) :
              \E t \in Shares :
                  net.flow_distribution[i] = <<t[1], t[3], ShareOf(t)>>
        /\ (capacity = ScenarioCapacity /\ net.sources = <<0, 1>>
                /\ net.sinks = <<3, 5>>) =>
              /\ AttributedTotal(net.flow_distribution, 0).num
                   = 10 * AttributedTotal(net.flow_distribution, 0).den
              /\ AttributedTotal(net.flow_distribution, 1).num
                   = 5 * AttributedTotal(net.flow_distribution, 1).den

\* The scenario solved for both terminals and both stores: the records
\* (A, D1, 4), (A, D2, 6), (B, D1, 2), (B, D2, 3), each over the inflow 15.
C6_Witness ==
    /\ net.status = "ok"
    /\ capacity = ScenarioCapacity
    /\ net.max_flow = 15
    /\ net.flow_distribution =
          << <<0, 3, [num |-> 60, den |-> 15]>>,
             <<0, 5, [num |-> 90, den |-> 15]>>,
             <<1, 3, [num |-> 30, den |-> 15]>>,
             <<1, 5, [num |-> 45, den |-> 15]>> >>

-----------------------------------------------------------------------------
(* Claims about build_graph. *)

\* C12 (as claimed): build_graph never returns a graph for a list that
\* holds the same ordered pair twice or an edge of negative capacity.
C12_BuildRejectsBadLists ==
    pc = "idle" =>
        /\ \A i, j \in 1..Len(original_edges) :
              (i # j) =>
                  <<original_edges[i][1], original_edges[i][2]>>
                      # <<original_edges[j][1], original_edges[j][2]>>
        /\ \A i \in 1..Len(original_edges) : original_edges[i][3] >= 0
        /\ \A e \in edges : capacity[e] >= 0

-----------------------------------------------------------------------------
(* Further claims about the unified solve and check_optimal_flow. *)

C16_NoNotOptimalReport ==
    analysis.status = "ok" => analysis.report.is_optimal

\* C17: in the report of a unified solve, source_saturated holds exactly
\* when every edge SUPER_SOURCE -> s carries its capacity, and
\* sink_saturated exactly when every edge d -> SUPER_SINK does.
C17_SaturationFlags ==
    net.status = "ok" =>
        /\ net.optimality_analysis.source_saturated <=>
              \A x \in Elems(net.sources) :
                  net.flow_dict[<<SUPER_SOURCE, x>>]
                      = net.graph.capacity[<<SUPER_SOURCE, x>>]
        /\ net.optimality_analysis.sink_saturated <=>
              \A x \in Elems(net.sinks) :
                  net.flow_dict[<<x, SUPER_SINK>>]
                      = net.graph.capacity[<<x, SUPER_SINK>>]

\* A solve whose super-sink edges are all saturated while a super-source
\* edge is not.
C17_Witness ==
    /\ net.status = "ok"
    /\ net.max_flow > 0
    /\ net.optimality_analysis.sink_saturated
    /\ ~net.optimality_analysis.source_saturated
    /\ Len(net.sinks) = 2

\* C18 (as claimed): the flow a source sends through a chain of hubs is
\* attributed to the sinks at the end of the chain: every record names a
\* sink as its destination.
C18_RecordsEndAtSinks ==
    net.status = "ok" =>
        \A i \in 1..Len(net.flow_distribution) :
            net.flow_distribution[i][2] \in Elems(net.sinks)

-----------------------------------------------------------------------------
(* Claims about calls with any arguments. *)

\* C13 (as claimed): edmonds_karp never returns a flow value when its
\* source or its sink is not an index of a node.
C13_UnknownNodeFails ==
    pc = "done" =>
        {source, sink} \subseteq 0..(MatrixLen(capacity_matrix) - 1)

\* C15: no step of a solve, of edmonds_karp or of the unified solve,
\* returning or failing, changes the nodes, the edges or the capacities of
\* the graph, and the graph never holds SUPER_SOURCE or SUPER_SINK.
C15_SolvesLeaveGraph ==
    [][/\ edges' = edges
       /\ capacity' = capacity
       /\ Nodes(edges') = Nodes(edges)
       /\ Nodes(edges') \cap {SUPER_SOURCE, SUPER_SINK} = {}]_vars

\* An edmonds_karp solve and a unified solve have both returned a positive
\* flow on the same graph.
C15_Witness ==
    /\ pc = "done"
    /\ max_flow > 0
    /\ net.status = "ok"
    /\ net.max_flow > 0

-----------------------------------------------------------------------------
(* Termination and the solve from a node to itself. *)

\* C19: every augmentation of edmonds_karp pushes a strictly positive
\* bottleneck, and every call returns: after finitely many augmentations bfs
\* finds no path.
C19_LoopTerminates ==
    /\ [][(pc = "loop" /\ pc' = "loop") => max_flow' > max_flow]_vars
    /\ (pc = "loop") ~> (pc = "done")

\* A call has returned after more than one augmentation: a flow of 3 needs
\* two paths when no capacity exceeds 2.
C19_Witness ==
    /\ pc = "done"
    /\ source # sink
    /\ max_flow = 3

\* C20: edmonds_karp with source equal to sink finds no path, raises
\* nothing, and returns max_flow 0 with an all-zero flow matrix.
C20_SourceIsSink ==
    (pc \in {"loop", "done"} /\ source = sink) =>
        /\ ~bfs(capacity_matrix, flow_matrix, source, sink, parent).found
        /\ max_flow = 0
        /\ \A u, v \in DOMAIN flow_matrix : flow_matrix[u][v] = 0

\* A solve from a node to itself has returned on a graph with a cycle
\* through that node.
C20_Witness ==
    /\ pc = "done"
    /\ source = sink
    /\ \E x \in DOMAIN capacity_matrix :
          /\ capacity_matrix[source][x] > 0
          /\ capacity_matrix[x][source] > 0

-----------------------------------------------------------------------------
(* Claims about the shape of the attribution records. *)

C29_OneRecordPerPair ==
    net.status = "ok" =>
        \A i, j \in 1..Len(net.flow_distribution) :
            (i # j) =>
                <<net.flow_distribution[i][1], net.flow_distribution[i][2]>>
                    # <<net.flow_distribution[j][1],
                         net.flow_distribution[j][2]>>

-----------------------------------------------------------------------------
(* Claims about the augmenting paths of edmonds_karp. *)

RECURSIVE PathNodes(_, _, _, _)
\* The nodes met by the loop of lines 67-69 (s = sink; s = parent[s] until
\* s = source), listed from the source end; at most fuel steps are read.
PathNodes(par, src, cur, fuel) ==
    IF cur = src \/ fuel = 0 \/ par[cur] \notin DOMAIN par
    THEN <<cur>>
    ELSE Append(PathNodes(par, src, par[cur], fuel - 1), cur)

RECURSIVE ResidualLayers(_, _, _, _, _)
\* The least number of residual edges from the node set S to snk, counted
\* from k; -1 when snk cannot be reached.
ResidualLayers(cm, fm, S, snk, k) ==
    LET step == S \cup {v \in DOMAIN cm :
                           \E u \in S : cm[u][v] - fm[u][v] > 0}
    IN  IF snk \in S THEN k
        ELSE IF step = S THEN -1
        ELSE ResidualLayers(cm, fm, step, snk, k + 1)

\* The fewest edges of an augmenting path from src to snk.
ResidualDistance(cm, fm, src, snk) == ResidualLayers(cm, fm, {src}, snk, 0)

\* The path the next iteration of the loop of edmonds_karp reads from parent.
HandedPath ==
    PathNodes(bfs(capacity_matrix, flow_matrix, source, sink, parent).parent,
              source, sink, MatrixLen(capacity_matrix))

\* C25: whenever bfs returns True inside edmonds_karp, the path read back
\* from the sink through parent starts at the source, repeats no node, uses
\* only edges with capacity - flow > 0 and has the fewest edges among the
\* augmenting paths of the residual graph.
C25_BfsPathIsShortestAugmenting ==
    (pc = "loop" /\ bfs(capacity_matrix, flow_matrix, source, sink,
                        parent).found) =>
        LET p == HandedPath
        IN  /\ p[1] = source
            /\ p[Len(p)] = sink
            /\ \A i, j \in 1..Len(p) : (i # j) => p[i] # p[j]
            /\ \A i \in 1..(Len(p) - 1) :
                  capacity_matrix[p[i]][p[i + 1]]
                      - flow_matrix[p[i]][p[i + 1]] > 0
            /\ Len(p) - 1 = ResidualDistance(capacity_matrix, flow_matrix,
                                             source, sink)

\* bfs returns True and a node of the path it hands over had another parent
\* left by an earlier bfs call of the same solve.
C25_Witness ==
    /\ pc = "loop"
    /\ max_flow > 0
    /\ LET r == bfs(capacity_matrix, flow_matrix, source, sink, parent)
       IN  /\ r.found
           /\ \E i \in 2..Len(HandedPath) :
                 /\ parent[HandedPath[i]] # NoParent
                 /\ parent[HandedPath[i]] # r.parent[HandedPath[i]]
           /\ Len(HandedPath) > 3

\* The number of edges of the path the last augmentation used: parent is
\* as the bfs call of that augmentation left it.
UsedLength ==
    Len(PathNodes(parent, source, sink, MatrixLen(capacity_matrix))) - 1

\* C26: within one solve the path of an augmentation has at most
\* (number of nodes - 1) edges and at least as many edges as the path of
\* the augmentation before it.
C26_PathLengthsNonDecreasing ==
    [][(pc = "loop" /\ pc' = "loop") =>
          /\ UsedLength' <= MatrixLen(capacity_matrix) - 1
          /\ (max_flow > 0) => (UsedLength' >= UsedLength)]_vars

\* A second or later augmentation has used a path of (number of nodes - 1)
\* edges, longer than the three edges of the first path of that solve.
C26_Witness ==
    /\ pc = "loop"
    /\ max_flow >= 2
    /\ MatrixLen(capacity_matrix) = 6
    /\ UsedLength = 5

-----------------------------------------------------------------------------
(* The maxflow command (logistics_network_simulator.py lines 439-460) can  *)
(* run either solver on the same graph: edmonds_karp on the capacity       *)
(* matrix, or calculate_network_max_flow with one-element terminal lists.  *)

\* The graph build_graph makes of A -> H (10), B -> H (5), H -> D1 (6),
\* H -> D2 (9); G.nodes() lists A, H, B, D1, D2, the indices 0..4.
HubScenario ==
    build_graph(<<<<0, 1, 10>>, <<2, 1, 5>>, <<1, 3, 6>>, <<1, 4, 9>>>>)

\* The terminal lists of the scenario: [A, B] and [D1, D2].
ScenarioSources == <<0, 2>>
ScenarioSinks == <<3, 4>>

\* The graphs on three nodes, the six-node layered network with unit
\* capacities, the five-node shortcut network, and the scenario.
InitBoth ==
    /\ \/ \E E \in SUBSET SmallPairs :
             /\ IsGraph(E)
             /\ edges = E
             /\ capacity \in [E -> 0..MaxCap]
       \/ /\ edges = LayeredPairs
          /\ capacity \in [LayeredPairs -> 1..InitCap]
       \/ /\ edges = ShortcutPairs
          /\ capacity \in [ShortcutPairs -> 1..MaxCap]
       \/ /\ edges = HubScenario.edges
          /\ capacity = HubScenario.capacity
    /\ InitSolver
    /\ returned = <<>>
    /\ net = NoNet

\* The terminal lists handed to the unified solve after edmonds_karp(s, t)
\* has returned: [s] and [t] as at line 444, or the lists of the scenario.
BothQueries ==
    {<<<<source>>, <<sink>>>>} \cup
        (IF edges = HubScenario.edges
         THEN {<<ScenarioSources, ScenarioSinks>>}
         ELSE {})

\* One call of edmonds_karp with source # sink, run to its end, then one
\* unified solve on the same graph.
NextBoth ==
    \/ \E s, t \in 0..(NumNodes(edges) - 1) :
          /\ s # t
          /\ pc = "idle"
          /\ SolveStart(s, t)
          /\ UNCHANGED <<returned, net, original_edges, analysis,
                    console_state, task_2>>
    \/ AugmentStep
    \/ ReturnStep
    \/ \E q \in BothQueries :
          /\ pc = "done"
          /\ net = NoNet
          /\ calculate_network_max_flow(q[1], q[2])
          /\ UNCHANGED <<returned, original_edges, analysis,
                    console_state, task_2>>

SpecBoth == InitBoth /\ [][NextBoth]_vars

\* C21: on the graph A -> H (10), B -> H (5), H -> D1 (6), H -> D2 (9),
\* edmonds_karp from A to D1 returns max_flow 6 and the unified solve for
\* the sources [A, B] and the sinks [D1, D2] returns max_flow 15.
C21_ScenarioValues ==
    (edges = HubScenario.edges /\ capacity = HubScenario.capacity) =>
        /\ (pc = "done" /\ source = 0 /\ sink = 3) => (max_flow = 6)
        /\ (net.status = "ok" /\ net.sources = ScenarioSources
                /\ net.sinks = ScenarioSinks) => (net.max_flow = 15)

\* Both calls have returned on the scenario graph.
C21_Witness ==
    /\ edges = HubScenario.edges
    /\ capacity = HubScenario.capacity
    /\ pc = "done" /\ source = 0 /\ sink = 3
    /\ net.status = "ok"
    /\ net.sources = ScenarioSources
    /\ net.sinks = ScenarioSinks

\* C27: for a source s and a sink t # s, the max_flow edmonds_karp returns
\* on the capacity matrix of G equals the max_flow
\* calculate_network_max_flow(G, [s], [t]) returns.
C27_SolversAgree ==
    (pc = "done" /\ net.status = "ok" /\ net.sources = <<source>>
        /\ net.sinks = <<sink>>) =>
        (net.max_flow = max_flow)

\* Both solvers have returned a positive value for the same pair on a graph
\* where the second augmenting path cancels flow of the first.
C27_Witness ==
    /\ pc = "done"
    /\ edges = LayeredPairs
    /\ net.status = "ok"
    /\ net.sources = <<source>>
    /\ net.sinks = <<sink>>
    /\ source = 0
    /\ sink = 5
    /\ max_flow = 2
    /\ net.max_flow = 2

-----------------------------------------------------------------------------
(* The console loop (logistics_network_simulator.py lines 316-471): the    *)
(* commands set and reset on the network built from the imported data.     *)

\* get_edges_list(G), utils.py lines 290-303: one (u, v, capacity) for each
\* edge of G.  The position of an edge in the list is its 1-based INDEX.
get_edges_list(E, cap) == EdgeListOf(E, cap)

\* validate_edge(G, "u -> v"), utils.py lines 306-329, on the name the set
\* command formats at line 359: the name is split at "->" and G.has_edge
\* decides.
validate_edge(E, u, v) == HasEdge(E, u, v)

\* Line 357 as if main declared `global edges`: the imported list is
\* replaced by the list of the current edges.
EdgesReboundGlobally(imported, listed) == listed

\* Line 357, edges = state["edges"]: the name is local to main (the file
\* has no global statement), so the imported list stays as it was.
ImportedAfterSet(imported, listed) == imported

\* The command "set INDEX VALUE" (lines 349-372).  parses is FALSE when
\* int() raises ValueError for one of the two words (lines 354-355, 365).
SetCommand(parses, idx, value) ==
    /\ pc # "start"
    /\ command' = "set"
    /\ IF ~parses
       THEN UNCHANGED <<graph, solver, upd, input_edges>>
       ELSE LET listed == get_edges_list(edges, capacity)
            IN  /\ input_edges' = ImportedAfterSet(input_edges, listed)
                /\ IF /\ 1 <= idx
                      /\ idx <= Len(listed)
                      /\ validate_edge(edges, listed[idx][1], listed[idx][2])
                   THEN UpdateEdgeCapacity(listed[idx][1], listed[idx][2],
                                           value)
                   ELSE UNCHANGED <<graph, solver, upd>>
    /\ UNCHANGED <<returned, net, original_edges, analysis, task_2>>

\* The command "reset" (lines 373-374 and 249-259): initialize_network()
\* builds the graph again from the imported list.
reset ==
    /\ pc # "start"
    /\ command' = "reset"
    /\ edges' = build_graph(input_edges).edges
    /\ capacity' = build_graph(input_edges).capacity
    /\ original_edges' = input_edges
    /\ UNCHANGED <<solver, upd, returned, net, analysis, input_edges, task_2>>

\* The words tried after "set": INDEX from 0 to one more than the longest
\* list, VALUE from -1 to MaxCap, and words that are not integers.
NextConsole ==
    \/ initialize_network(input_edges)
    \/ \E parses \in BOOLEAN, idx \in 0..(MaxEdges + 1),
          value \in (0 - 1)..MaxCap :
          SetCommand(parses, idx, value)
    \/ reset

SpecConsole == InitBuild /\ [][NextConsole]_vars

\* C22: whatever set commands came before, a reset leaves the network with
\* the edges and the capacities of the graph built from the input data.
C22_ResetRestoresOriginal ==
    [][reset =>
          /\ edges' = build_graph(original_edges).edges
          /\ capacity' = build_graph(original_edges).capacity]_vars

\* A set command has changed a capacity and a later reset has put the
\* original capacities back.
C22_Witness ==
    /\ command = "reset"
    /\ upd # NoUpdate
    /\ upd.success
    /\ upd.old_capacity # upd.new_capacity
    /\ edges = build_graph(original_edges).edges
    /\ capacity = build_graph(original_edges).capacity
    /\ capacity[<<upd.message[2], upd.message[3]>>] = upd.old_capacity

-----------------------------------------------------------------------------
(* task_2/extend_trie.py: class Homework(pygtrie.Trie).  A key is the      *)
(* sequence of its characters; the trie is the set of its nodes (each the  *)
(* path from the root) and the set of the nodes that hold a value.         *)
(* pygtrie is a library: a node is created on the path of every key that   *)
(* is set, and a deletion removes the nodes left without value and child.  *)

\* Longest word stored in the trie; the arguments of the two methods are
\* up to one character longer.
MaxWordLen == 2

Alphabet == {"a", "b"}

\* The words that are stored and the strings that are asked for.
Words == ListsUpTo(Alphabet, MaxWordLen)
Patterns == ListsUpTo(Alphabet, MaxWordLen + 1)

\* The paths of the nodes between the root and the node of path.
Prefixes(path) == {SubSeq(path, 1, k) : k \in 0..Len(path)}

\* trie[word] = value (line 71): the nodes on the path of word exist
\* afterwards and the last of them holds the value.
TrieSet(t, word) ==
    [nodes |-> t.nodes \cup Prefixes(word), keys |-> t.keys \cup {word}]

\* The node of path has a child.
HasChildren(nodes, path) ==
    \E n \in nodes :
        Len(n) = Len(path) + 1 /\ SubSeq(n, 1, Len(path)) = path

RECURSIVE PopValue(_, _, _)
\* The nodes left when the value of the node of path is gone: going up
\* from that node, every node without value and without child is removed;
\* the root stays.
PopValue(nodes, keys, path) ==
    IF path = <<>> \/ path \in keys \/ HasChildren(nodes, path)
    THEN nodes
    ELSE PopValue(nodes \ {path}, keys,
                  SubSeq(path, 1, Len(path) - 1))

\* del trie[word] for a word that is a key.
TrieDel(t, word) ==
    [nodes |-> PopValue(t.nodes, t.keys \ {word}, word),
     keys |-> t.keys \ {word}]

\* key_path[:pattern_len] in place of key_path[-pattern_len:].
FirstItems(path, k) ==
    SubSeq(path, 1, Min(k, Len(path)))

\* Line 33, key_path[-pattern_len:]: the last k items of the tuple, all
\* of it when k is 0 (the slice [-0:] is [0:]) or exceeds its length.
LastItems(path, k) ==
    IF k = 0 \/ k >= Len(path)
    THEN path
    ELSE SubSeq(path, Len(path) - k + 1, Len(path))

\* count_words_with_suffix(pattern), lines 5-36, for a string pattern.
count_words_with_suffix(t, pattern) ==
    IF pattern = <<>>
    THEN Cardinality(t.keys)
    ELSE LET pattern_len == Len(pattern)
         IN  Cardinality({key \in t.keys :
                             /\ Len(key) >= pattern_len
                             /\ LastItems(key, pattern_len) = pattern})

\* has_prefix answering `prefix in self`: True for stored words only.
HasPrefixIsKey(t, prefix) ==
    IF prefix = <<>> THEN t.keys # {} ELSE prefix \in t.keys

\* has_prefix(prefix), lines 38-64, for a string prefix: _get_node raises
\* KeyError when the trie has no node on the path of prefix.
has_prefix(t, prefix) ==
    IF prefix = <<>> THEN t.keys # {} ELSE prefix \in t.nodes

\* Everything outside task_2.
task_1 ==
    <<graph, solver, upd, returned, net, original_edges, analysis,
      console_state>>

\* trie[word] = value
SetItem(word) ==
    /\ trie' = TrieSet(trie, word)
    /\ answer' = [op |-> "setitem", arg |-> word]
    /\ UNCHANGED task_1

\* del trie[word]: KeyError for a word that is not a key.
DelItem(word) ==
    /\ IF word \in trie.keys
       THEN /\ trie' = TrieDel(trie, word)
            /\ answer' = [op |-> "delitem", arg |-> word]
       ELSE /\ trie' = trie
            /\ answer' = [op |-> "delitem", arg |-> word,
                          raised |-> "KeyError"]
    /\ UNCHANGED task_1

\* trie.has_prefix(prefix)
HasPrefixCall(prefix) ==
    /\ answer' = [op |-> "has_prefix", arg |-> prefix,
                  result |-> has_prefix(trie, prefix)]
    /\ UNCHANGED <<trie, task_1>>

\* trie.count_words_with_suffix(pattern)
CountCall(pattern) ==
    /\ answer' = [op |-> "count_words_with_suffix", arg |-> pattern,
                  result |-> count_words_with_suffix(trie, pattern)]
    /\ UNCHANGED <<trie, task_1>>

\* trie = Homework() (line 68); the network of task_1 is not loaded.
InitTrie ==
    /\ InitBuild
    /\ input_edges = <<>>

NextTrie ==
    \/ \E word \in Words : SetItem(word)
    \/ \E word \in Words : DelItem(word)
    \/ \E prefix \in Patterns : HasPrefixCall(prefix)
    \/ \E pattern \in Patterns : CountCall(pattern)

SpecTrie == InitTrie /\ [][NextTrie]_vars

\* w starts with p; w ends with p.
StartsWith(w, p) == Len(p) <= Len(w) /\ SubSeq(w, 1, Len(p)) = p
EndsWith(w, p) == \E x \in Prefixes(w) : w = x \o p

\* C23: after any insertions and deletions, has_prefix(prefix) returns True
\* exactly when some stored word starts with prefix; for the empty prefix,
\* exactly when the trie holds a word.
C23_HasPrefix ==
    (answer.op = "has_prefix") =>
        /\ answer.result = (\E w \in trie.keys : StartsWith(w, answer.arg))
        /\ (answer.arg = <<>>) => (answer.result = (trie.keys # {}))

\* has_prefix returned True for a prefix that is not a stored word, in a
\* trie that also holds a word not starting with it.
C23_Witness ==
    /\ answer.op = "has_prefix"
    /\ answer.result
    /\ answer.arg # <<>>
    /\ answer.arg \notin trie.keys
    /\ \E w \in trie.keys : ~StartsWith(w, answer.arg)

\* C24: count_words_with_suffix(pattern) returns the number of stored
\* words that end with pattern, a word equal to pattern included; for the
\* empty pattern, the number of stored words.
C24_CountSuffix ==
    (answer.op = "count_words_with_suffix") =>
        /\ answer.result =
               Cardinality({w \in trie.keys : EndsWith(w, answer.arg)})
        /\ (answer.arg = <<>>) => (answer.result = Cardinality(trie.keys))

\* The count is 2, the pattern itself is one of the two words, and a third
\* word does not end with it.
C24_Witness ==
    /\ answer.op = "count_words_with_suffix"
    /\ answer.result = 2
    /\ answer.arg # <<>>
    /\ answer.arg \in trie.keys
    /\ \E w \in trie.keys : ~EndsWith(w, answer.arg)

=============================================================================
